---- MODULE Spec2Model ----
(***************************************************************************)
(* Model of the compiler front end of openapi-codegen: extraction of       *)
(* resources and operations from the path table (src/src/api.rs) and       *)
(* resolution of component schemas into named types (src/src/types.rs).    *)
(*                                                                         *)
(* Strings that the code takes apart or orders (operation ids, resource    *)
(* names, schema names) are sequences of one-character strings.            *)
(***************************************************************************)
EXTENDS Integers, Sequences, FiniteSets, TLC

VARIABLES
    pc,         \* position: "new" (inside Api::new), "built", "failed", "panicked", "typed";
                \* "field", "resolved", "projected" (a field schema); "struct", "made" (a type)
    npaths,     \* number of path items taken from the path table so far
    cur,        \* the path item being iterated: [path, next] or NoItem
    nops,       \* number of (method, operation) pairs handed to from_openapi
    resources,  \* Api.resources: BTreeMap<String, Resource>, as a key-ordered sequence
    op,         \* the operation node last handed to Operation::from_openapi
    result,     \* what from_openapi made of it: Pending, None, Some(..) or Panic
    schemas,    \* the raw component table (IndexMap), as a sequence of <<name, schema>>
    table,      \* the component table as the document gave it (what schemas started as)
    types,      \* Types.0: BTreeMap, as a key-ordered sequence of <<name, entry>>
    lookups,    \* the names Api::types passed to swap_remove, in order
    node,       \* the schema object handed to FieldType::from_schema_object or Type::from_schema
    out,        \* what that call returned: Pending, Ok(..) or Err
    text        \* the type name a projector made of the FieldType: Pending, Some([lang, name]) or Panic

vars ==
    <<pc, npaths, cur, nops, resources, op, result, schemas, table, types, lookups,
      node, out, text>>

----------------------------------------------------------------------------
(* Option<T> and the outcomes of a call. *)

None == [tag |-> "None"]

Some(x) == [tag |-> "Some", val |-> x]

Panic == [tag |-> "Panic"]

Pending == [tag |-> "Pending"]

IsSome(o) == o.tag = "Some"

----------------------------------------------------------------------------
(* Strings: sequences of characters, ordered as Rust orders str (bytewise). *)

Alphabet == <<".", "1", "2", "A", "B", "C", "a", "b", "v", "x", "y">>

CharRank(c) == CHOOSE i \in 1..Len(Alphabet) : Alphabet[i] = c

RECURSIVE StrLt(_, _)
StrLt(s, t) ==
    IF t = <<>> THEN FALSE
    ELSE IF s = <<>> THEN TRUE
    ELSE IF Head(s) = Head(t) THEN StrLt(Tail(s), Tail(t))
    ELSE CharRank(Head(s)) < CharRank(Head(t))

\* str::split("."): the pieces between the dots, empty pieces included
RECURSIVE SplitFrom(_, _, _)
SplitFrom(s, i, piece) ==
    IF i > Len(s) THEN <<piece>>
    ELSE IF s[i] = "." THEN <<piece>> \o SplitFrom(s, i + 1, <<>>)
    ELSE SplitFrom(s, i + 1, Append(piece, s[i]))

Split(s) == SplitFrom(s, 1, <<>>)

----------------------------------------------------------------------------
(* schemars::schema::Schema and SchemaObject, as far as the code reads them. *)

SchemaBool(b) == [tag |-> "Bool", val |-> b]

SchemaObj(o) == [tag |-> "Object", obj |-> o]

Single(t) == [tag |-> "Single", val |-> t]

Multi(ts) == [tag |-> "Vec", val |-> ts]

\* a SchemaObject with every member absent
EmptySchemaObject ==
    [metadata |-> None, instance_type |-> None, format |-> None, reference |-> None,
     object |-> None, array |-> None, const_value |-> None, enum_values |-> None]

\* { "type": t }
TypedSchema(t) == [EmptySchemaObject EXCEPT !.instance_type = Some(Single(t))]

\* { "type": t, "format": f }
FormatSchema(t, f) == [TypedSchema(t) EXCEPT !.format = Some(f)]

SchemasPrefix == "#/components/schemas/"

\* { "$ref": prefix ++ name }
RefSchema(prefix, name) == [EmptySchemaObject EXCEPT !.reference = Some(<<prefix>> \o name)]

\* an ObjectValidation with only properties and required set
PlainObject(props, req) ==
    [properties |-> props, required |-> req, additional_properties |-> None,
     max_properties |-> None, min_properties |-> None,
     pattern_properties |-> {}, property_names |-> None]

\* { "type": "object", "properties": props, "required": req }
StructSchema(props, req) ==
    [TypedSchema("object") EXCEPT !.object = Some(PlainObject(props, req))]

\* { "type": "object", "additionalProperties": ap }
MapSchema(ap) ==
    [TypedSchema("object") EXCEPT
        !.object = Some([PlainObject(<<>>, {}) EXCEPT !.additional_properties = Some(ap)])]

\* { "type": "array", "items": item, "uniqueItems": unique }
ArraySchema(item, unique) ==
    [TypedSchema("array") EXCEPT
        !.array = Some([items |-> Some(Single(item)), additional_items |-> None,
                        unique_items |-> unique])]

\* util::get_schema_name: the bare name of a "#/components/schemas/<Name>" reference
get_schema_name(maybe_ref) ==
    IF ~IsSome(maybe_ref) THEN None
    ELSE IF Len(maybe_ref.val) >= 1 /\ Head(maybe_ref.val) = SchemasPrefix
         THEN Some(Tail(maybe_ref.val))
         ELSE None

----------------------------------------------------------------------------
(* FieldType and its resolver (types.rs).  A failed resolution is Err.     *)

Err == [tag |-> "Err"]

Ok(x) == [tag |-> "Ok", val |-> x]

IsOk(r) == r.tag = "Ok"

FT(k) == [kind |-> k]

FTList(inner) == [kind |-> "List", inner |-> inner]

FTSet(inner) == [kind |-> "Set", inner |-> inner]

FTMap(value_ty) == [kind |-> "Map", inner |-> value_ty]

FTSchemaRef(name) == [kind |-> "SchemaRef", name |-> name]

\* IntegerFormat with "int" and "uint" taken for 32-bit formats
IntegerFormatNarrow(f) ==
    IF f = Some("int16") THEN Ok(FT("Int16"))
    ELSE IF f = Some("uint16") THEN Ok(FT("UInt16"))
    ELSE IF f \in {Some("int32"), Some("int"), Some("uint")} THEN Ok(FT("Int32"))
    ELSE IF f = Some("int64") THEN Ok(FT("Int64"))
    ELSE IF f = Some("uint64") THEN Ok(FT("UInt64"))
    ELSE Err

IntegerFormat(f) ==
    IF f = Some("int16") THEN Ok(FT("Int16"))
    ELSE IF f = Some("uint16") THEN Ok(FT("UInt16"))
    ELSE IF f = Some("int32") THEN Ok(FT("Int32"))
    ELSE IF f \in {Some("int"), Some("int64")} THEN Ok(FT("Int64"))
    ELSE IF f \in {Some("uint"), Some("uint64")} THEN Ok(FT("UInt64"))
    ELSE Err

StringFormat(f) ==
    IF f = None THEN Ok(FT("String"))
    ELSE IF f = Some("date-time") THEN Ok(FT("DateTime"))
    ELSE IF f = Some("uri") THEN Ok(FT("Uri"))
    ELSE Err

RECURSIVE from_schema_object(_)
\* FieldType::from_schema: a boolean schema is refused
from_schema(s) ==
    IF s.tag = "Object" THEN from_schema_object(s.obj) ELSE Err

ArrayFieldType(obj) ==
    IF ~IsSome(obj.array) THEN Err
    ELSE LET array == obj.array.val IN
         IF array.additional_items # None THEN Err
         ELSE IF ~IsSome(array.items) THEN Err
         ELSE IF array.items.val.tag # "Single" THEN Err
         ELSE LET inner == from_schema(array.items.val.val) IN
              IF ~IsOk(inner) THEN Err
              ELSE IF array.unique_items = Some(TRUE) THEN Ok(FTSet(inner.val))
              ELSE Ok(FTList(inner.val))

ObjectFieldType(o) ==
    IF ~IsSome(o.object) THEN Err
    ELSE LET obj == o.object.val IN
         IF ~IsSome(obj.additional_properties) THEN Err
         ELSE IF obj.max_properties # None \/ obj.min_properties # None THEN Err
         ELSE IF obj.properties # <<>> THEN Err
         ELSE IF obj.pattern_properties # {} \/ obj.property_names # None THEN Err
         ELSE IF obj.required # {} THEN Err
         ELSE LET ap == obj.additional_properties.val IN
              IF ap.tag = "Bool" THEN (IF ap.val THEN Ok(FT("JsonObject")) ELSE Err)
              ELSE LET value_ty == from_schema_object(ap.obj) IN
                   IF IsOk(value_ty) THEN Ok(FTMap(value_ty.val)) ELSE Err

from_schema_object(obj) ==
    IF obj.instance_type = None THEN
        LET name == get_schema_name(obj.reference) IN
        IF IsSome(name) THEN Ok(FTSchemaRef(name.val)) ELSE Err
    ELSE IF obj.instance_type.val.tag = "Vec" THEN Err
    ELSE LET ty == obj.instance_type.val.val IN
         IF ty = "boolean" THEN Ok(FT("Bool"))
         ELSE IF ty = "integer" THEN IntegerFormat(obj.format)
         ELSE IF ty = "string" THEN StringFormat(obj.format)
         ELSE IF ty = "array" THEN ArrayFieldType(obj)
         ELSE IF ty = "object" THEN ObjectFieldType(obj)
         ELSE Err

\* FieldType::from_openapi: a parameter's format must be a schema, not content
from_openapi_format(format) ==
    IF format.tag = "Schema" THEN from_schema(format.schema) ELSE Err

----------------------------------------------------------------------------
(* The type-name projectors (types.rs): Some(text), or Panic for todo!().  *)

\* a schema name (a sequence of characters) as text
RECURSIVE Join(_)
Join(s) == IF s = <<>> THEN "" ELSE Head(s) \o Join(Tail(s))

\* format!(pattern, inner) with the pattern's text before and after the hole
Format(before, inner, after) ==
    IF inner = Panic THEN Panic ELSE Some(before \o inner.val \o after)

RECURSIVE to_csharp_typename(_)
to_csharp_typename(t) ==
    IF t.kind = "Bool" THEN Some("bool")
    ELSE IF t.kind \in {"Int32", "Int64", "UInt64"} THEN Some("int")
    ELSE IF t.kind = "String" THEN Some("string")
    ELSE IF t.kind = "DateTime" THEN Some("DateTime")
    ELSE IF t.kind \in {"Int16", "UInt16", "Uri", "JsonObject", "Map"} THEN Panic
    ELSE IF t.kind \in {"List", "Set"} THEN Format("List<", to_csharp_typename(t.inner), ">")
    ELSE Some(Join(t.name))

RECURSIVE to_go_typename(_)
to_go_typename(t) ==
    IF t.kind = "Bool" THEN Some("bool")
    ELSE IF t.kind \in {"Int32", "Int64", "UInt64"} THEN Some("int32")
    ELSE IF t.kind = "String" THEN Some("string")
    ELSE IF t.kind = "DateTime" THEN Some("time.Time")
    ELSE IF t.kind \in {"Int16", "UInt16", "Uri", "JsonObject", "Map"} THEN Panic
    ELSE IF t.kind \in {"List", "Set"} THEN Format("[]", to_go_typename(t.inner), "")
    ELSE Some(Join(t.name))

RECURSIVE to_kotlin_typename(_)
to_kotlin_typename(t) ==
    IF t.kind = "Bool" THEN Some("Boolean")
    ELSE IF t.kind \in {"Int32", "Int64", "UInt64"} THEN Some("Int")
    ELSE IF t.kind = "String" THEN Some("String")
    ELSE IF t.kind = "DateTime" THEN Some("OffsetDateTime")
    ELSE IF t.kind \in {"Int16", "UInt16", "Uri", "JsonObject", "Map"} THEN Panic
    ELSE IF t.kind \in {"List", "Set"} THEN Format("List<", to_kotlin_typename(t.inner), ">")
    ELSE Some(Join(t.name))

RECURSIVE to_js_typename(_)
to_js_typename(t) ==
    IF t.kind = "Bool" THEN Some("boolean")
    ELSE IF t.kind \in {"Int16", "UInt16", "Int32", "Int64", "UInt64"} THEN Some("number")
    ELSE IF t.kind = "String" THEN Some("string")
    ELSE IF t.kind = "DateTime" THEN Some("Date | null")
    ELSE IF t.kind \in {"Uri", "JsonObject", "Map"} THEN Panic
    ELSE IF t.kind \in {"List", "Set"} THEN Format("", to_js_typename(t.inner), "[]")
    ELSE Some(Join(t.name))

\* to_rust_typename with a set kept apart from a list
RECURSIVE to_rust_typename_with_sets(_)
to_rust_typename_with_sets(t) ==
    IF t.kind = "Bool" THEN Some("bool")
    ELSE IF t.kind = "Int16" THEN Some("i16")
    ELSE IF t.kind = "UInt16" THEN Some("u16")
    ELSE IF t.kind \in {"Int32", "Int64", "UInt64"} THEN Some("i32")
    ELSE IF t.kind \in {"Uri", "String"} THEN Some("String")
    ELSE IF t.kind = "DateTime" THEN Some("DateTime<Utc>")
    ELSE IF t.kind = "JsonObject" THEN Some("serde_json::Value")
    ELSE IF t.kind = "List" THEN Format("Vec<", to_rust_typename_with_sets(t.inner), ">")
    ELSE IF t.kind = "Set" THEN
        Format("std::collections::BTreeSet<", to_rust_typename_with_sets(t.inner), ">")
    ELSE IF t.kind = "Map" THEN
        Format("std::collections::HashMap<String, ", to_rust_typename_with_sets(t.inner), ">")
    ELSE Some(Join(t.name))

RECURSIVE to_rust_typename(_)
to_rust_typename(t) ==
    IF t.kind = "Bool" THEN Some("bool")
    ELSE IF t.kind = "Int16" THEN Some("i16")
    ELSE IF t.kind = "UInt16" THEN Some("u16")
    ELSE IF t.kind \in {"Int32", "Int64", "UInt64"} THEN Some("i32")
    ELSE IF t.kind \in {"Uri", "String"} THEN Some("String")
    ELSE IF t.kind = "DateTime" THEN Some("DateTime<Utc>")
    ELSE IF t.kind = "JsonObject" THEN Some("serde_json::Value")
    ELSE IF t.kind \in {"List", "Set"} THEN Format("Vec<", to_rust_typename(t.inner), ">")
    ELSE IF t.kind = "Map" THEN
        Format("std::collections::HashMap<String, ", to_rust_typename(t.inner), ">")
    ELSE Some(Join(t.name))

\* minijinja::Error of a method call
MethodError(kind) == [tag |-> "Err", kind |-> kind]

\* FieldType::call_method: the value a template's method call gets
call_method(method, args, t) ==
    IF method \notin {"to_csharp", "to_go", "to_js", "to_kotlin", "to_rust", "is_datetime"}
    THEN MethodError("UnknownMethod")
    ELSE IF args # <<>> THEN MethodError("TooManyArguments")
    ELSE IF method = "to_csharp" THEN to_csharp_typename(t)
    ELSE IF method = "to_go" THEN to_go_typename(t)
    ELSE IF method = "to_js" THEN to_js_typename(t)
    ELSE IF method = "to_kotlin" THEN to_kotlin_typename(t)
    ELSE IF method = "to_rust" THEN to_rust_typename(t)
    ELSE Some(t.kind = "DateTime")

----------------------------------------------------------------------------
(* Parameters, request bodies and responses of an operation node (aide).   *)

ParamReference == [tag |-> "Reference"]

ParameterData(name, required, format) ==
    [name |-> name, description |-> None, required |-> required, format |-> format]

\* openapi::Parameter::{Path, Header, Query, Cookie}; the two flags are read
\* for query parameters only
Parameter(loc, style, data) ==
    [tag |-> "Item", loc |-> loc, style |-> style, data |-> data,
     allow_reserved |-> FALSE, allow_empty_value |-> None]

FormatSchemaOf(s) == [tag |-> "Schema", schema |-> s]

FormatContent == [tag |-> "Content"]

\* enforce_string_parameter: TRUE for Ok(()), FALSE for the three bail!s
enforce_string_parameter(parameter_data) ==
    IF parameter_data.format.tag # "Schema" THEN FALSE
    ELSE IF parameter_data.format.schema.tag # "Object" THEN FALSE
    ELSE parameter_data.format.schema.obj.instance_type = Some(Single("string"))

NoParams == [path_params |-> <<>>, header_params |-> <<>>, query_params |-> <<>>]

\* one arm of the match on a parameter: Ok(the lists extended), None or Panic
ParamArm(param, acc) ==
    IF param.tag = "Reference" THEN None
    ELSE IF param.loc = "Path" /\ param.style = "Simple" THEN
        IF ~param.data.required THEN Panic
        ELSE IF ~enforce_string_parameter(param.data) THEN None
        ELSE Ok([acc EXCEPT !.path_params = Append(@, param.data.name)])
    ELSE IF param.loc = "Header" /\ param.style = "Simple" THEN
        IF ~enforce_string_parameter(param.data) THEN None
        ELSE Ok([acc EXCEPT !.header_params =
                    Append(@, [name |-> param.data.name, required |-> param.data.required])])
    ELSE IF /\ param.loc = "Query"
            /\ param.allow_reserved = FALSE
            /\ param.style = "Form"
            /\ param.allow_empty_value = None THEN
        LET type == from_openapi_format(param.data.format) IN
        IF ~IsOk(type) THEN None
        ELSE Ok([acc EXCEPT !.query_params =
                    Append(@, [name |-> param.data.name,
                               description |-> param.data.description,
                               required |-> param.data.required,
                               type |-> type.val])])
    ELSE None

\* the loop over op.parameters, from index i on
RECURSIVE ParamLoop(_, _, _)
ParamLoop(params, i, acc) ==
    IF i > Len(params) THEN Ok(acc)
    ELSE LET r == ParamArm(params[i], acc) IN
         IF IsOk(r) THEN ParamLoop(params, i + 1, r.val) ELSE r

JsonMedia == "application/json"

\* IndexMap::swap_remove(key) on a sequence of <<key, value>>: the value found
IndexOfKey(m, key) ==
    IF \E i \in 1..Len(m) : m[i][1] = key
    THEN CHOOSE i \in 1..Len(m) : m[i][1] = key /\ \A j \in 1..(i - 1) : m[j][1] # key
    ELSE 0

\* ... and the map left: the last entry takes the removed entry's place
SwapRemoved(m, key) ==
    LET i == IndexOfKey(m, key) IN
    IF i = 0 THEN m
    ELSE IF i = Len(m) THEN SubSeq(m, 1, Len(m) - 1)
    ELSE [k \in 1..(Len(m) - 1) |-> IF k = i THEN m[Len(m)] ELSE m[k]]

\* JsonBodySchemaName without the assertion on the number of content entries
JsonBodyOfAnyCount(content) ==
    LET i == IndexOfKey(content, JsonMedia) IN
    IF i = 0 THEN Panic
    ELSE LET json_body == content[i][2] IN
         IF json_body.extensions # {} THEN Panic
         ELSE IF ~IsSome(json_body.schema) THEN Panic
         ELSE IF json_body.schema.val.tag = "Bool" THEN None
         ELSE get_schema_name(json_body.schema.val.obj.reference)

\* the tail shared by request and response bodies: the one JSON entry's schema name
JsonBodySchemaName(content) ==
    IF Len(content) # 1 THEN Panic
    ELSE LET i == IndexOfKey(content, JsonMedia) IN
         IF i = 0 THEN Panic
         ELSE LET json_body == content[i][2] IN
              IF json_body.extensions # {} THEN Panic
              ELSE IF ~IsSome(json_body.schema) THEN Panic
              ELSE IF json_body.schema.val.tag = "Bool" THEN None
              ELSE get_schema_name(json_body.schema.val.obj.reference)

\* the closure given to op.request_body.and_then
request_body_schema_name(request_body) ==
    IF ~IsSome(request_body) THEN None
    ELSE LET b == request_body.val IN
         IF b.tag = "Reference" THEN None
         ELSE IF ~b.body.required THEN Panic
         ELSE IF b.body.extensions # {} THEN Panic
         ELSE JsonBodySchemaName(b.body.content)

response_body_schema_name(resp) ==
    IF resp.tag = "Reference" THEN None
    ELSE IF resp.body.extensions # {} THEN Panic
    ELSE IF resp.body.content = <<>> THEN None
    ELSE JsonBodySchemaName(resp.body.content)

\* the filter on (status, response): status codes in 200..300
IsSuccess(entry) ==
    entry[1].tag = "Code" /\ entry[1].val >= 200 /\ entry[1].val < 300

\* AllAgree without the loop: the later success responses are not compared
FirstOnly(success, i, schema_name) == schema_name

\* the for loop asserting that the later success responses name the same schema
RECURSIVE AllAgree(_, _, _)
AllAgree(success, i, schema_name) ==
    IF i > Len(success) THEN schema_name
    ELSE IF response_body_schema_name(success[i][2]) # schema_name THEN Panic
    ELSE AllAgree(success, i + 1, schema_name)

\* the closure given to op.responses.and_then
responses_schema_name(responses) ==
    IF ~IsSome(responses) THEN None
    ELSE LET r == responses.val IN
         IF r.default # None THEN Panic
         ELSE IF r.extensions # {} THEN Panic
         ELSE LET success_responses == SelectSeq(r.responses, IsSuccess) IN
              IF success_responses = <<>> THEN Panic
              ELSE LET schema_name == response_body_schema_name(success_responses[1][2]) IN
                   IF schema_name = Panic THEN Panic
                   ELSE AllAgree(success_responses, 2, schema_name)

V1 == <<"v", "1">>

\* IsV1 without the comparison: any version tag is taken
AnyVersion(version) == TRUE

\* the test `version != "v1"` negated
IsV1(version) == version = V1

\* Operation::from_openapi: None, Some(<<res_name, operation>>) or Panic
from_openapi(path, method, o) ==
    IF ~IsSome(o.operation_id) THEN None
    ELSE LET op_id == o.operation_id.val
             op_id_parts == Split(op_id) IN
         IF Len(op_id_parts) # 3 THEN None
         ELSE IF ~IsV1(op_id_parts[1]) THEN None
         ELSE LET params == ParamLoop(o.parameters, 1, NoParams) IN
              IF ~IsOk(params) THEN params
              ELSE LET req == request_body_schema_name(o.request_body) IN
                   IF req = Panic THEN Panic
                   ELSE LET resp == responses_schema_name(o.responses) IN
                        IF resp = Panic THEN Panic
                        ELSE Some(<<op_id_parts[2],
                                    [id |-> op_id,
                                     name |-> op_id_parts[3],
                                     description |-> o.description,
                                     method |-> method,
                                     path |-> path,
                                     path_params |-> params.val.path_params,
                                     header_params |-> params.val.header_params,
                                     query_params |-> params.val.query_params,
                                     request_body_schema_name |-> req,
                                     response_body_schema_name |-> resp]>>)

----------------------------------------------------------------------------
(* Api::new (api.rs): the resource map and one iteration of its loops.      *)

\* NewResource with the name left empty
NewResourceUnnamed(name) == [name |-> <<>>, operations |-> <<>>]

\* Resource::new
NewResource(name) == [name |-> name, operations |-> <<>>]

KeyIndex(m, key) ==
    IF \E i \in 1..Len(m) : m[i][1] = key
    THEN CHOOSE i \in 1..Len(m) : m[i][1] = key
    ELSE 0

\* BTreeMap::insert of a key that is absent: the entry goes where the order puts it
BTreeInsert(m, key, value) ==
    LET before == Cardinality({i \in 1..Len(m) : StrLt(m[i][1], key)}) IN
    SubSeq(m, 1, before) \o <<<<key, value>>>> \o SubSeq(m, before + 1, Len(m))

\* PushOperation with the operation put first in the resource's list
PushOperationFirst(res, res_name, operation) ==
    LET with == IF KeyIndex(res, res_name) = 0
                THEN BTreeInsert(res, res_name, NewResource(res_name))
                ELSE res
        i == KeyIndex(with, res_name) IN
    [with EXCEPT ![i][2].operations = <<operation>> \o @]

\* resources.entry(res_name).or_insert_with(|| Resource::new(res_name)).operations.push(op)
PushOperation(res, res_name, operation) ==
    LET with == IF KeyIndex(res, res_name) = 0
                THEN BTreeInsert(res, res_name, NewResource(res_name))
                ELSE res
        i == KeyIndex(with, res_name) IN
    [with EXCEPT ![i][2].operations = Append(@, operation)]

\* the body of `for (method, op) in path_item`: the resource map afterwards
AfterOperation(res, r) ==
    IF IsSome(r) THEN PushOperation(res, r.val[1], r.val[2]) ELSE res

\* the operations of all resources, in map order (values().flat_map(operations))
RECURSIVE AllOperations(_)
AllOperations(res) ==
    IF res = <<>> THEN <<>> ELSE Head(res)[2].operations \o AllOperations(Tail(res))

----------------------------------------------------------------------------
(* Type and Field builders (types.rs) and the component resolver Api::types. *)

\* s.metadata.unwrap_or_default()
MetadataOf(obj) ==
    IF IsSome(obj.metadata) THEN obj.metadata.val
    ELSE [description |-> None, deprecated |-> FALSE, default |-> None]

\* Field::from_schema
field_from_schema(name, s, required) ==
    IF s.tag = "Bool" THEN Err
    ELSE IF s.obj.const_value # None THEN Err
    ELSE IF s.obj.enum_values # None THEN Err
    ELSE LET type == from_schema_object(s.obj) IN
         IF ~IsOk(type) THEN Err
         ELSE Ok([name |-> name, type |-> type.val,
                  default |-> MetadataOf(s.obj).default,
                  description |-> MetadataOf(s.obj).description,
                  required |-> required,
                  deprecated |-> MetadataOf(s.obj).deprecated])

\* CollectFields with a property whose Field fails left out of the list
RECURSIVE CollectFieldsSkipping(_, _, _)
CollectFieldsSkipping(props, required, i) ==
    IF i > Len(props) THEN Ok(<<>>)
    ELSE LET f == field_from_schema(props[i][1], props[i][2], props[i][1] \in required)
             rest == CollectFieldsSkipping(props, required, i + 1) IN
         IF ~IsOk(f) THEN rest ELSE Ok(<<f.val>> \o rest.val)

\* the collect::<anyhow::Result<_>>() over the properties: the first Err ends it
RECURSIVE CollectFields(_, _, _)
CollectFields(props, required, i) ==
    IF i > Len(props) THEN Ok(<<>>)
    ELSE LET f == field_from_schema(props[i][1], props[i][2], props[i][1] \in required) IN
         IF ~IsOk(f) THEN Err
         ELSE LET rest == CollectFields(props, required, i + 1) IN
              IF IsOk(rest) THEN Ok(<<f.val>> \o rest.val) ELSE Err

\* Type::from_schema
type_from_schema(name, s) ==
    IF s.instance_type # Some(Single("object")) THEN Err
    ELSE IF ~IsSome(s.object) THEN Err
    ELSE LET obj == s.object.val IN
         IF obj.additional_properties # None THEN Err
         ELSE IF obj.max_properties # None \/ obj.min_properties # None THEN Err
         ELSE IF obj.pattern_properties # {} THEN Err
         ELSE IF obj.property_names # None THEN Err
         ELSE LET fields == CollectFields(obj.properties, obj.required, 1) IN
              IF ~IsOk(fields) THEN Err
              ELSE Ok([name |-> name,
                       description |-> MetadataOf(s).description,
                       deprecated |-> MetadataOf(s).deprecated,
                       data |-> [tag |-> "Struct", fields |-> fields.val]])

\* which body names of an operation count as referenced: the filter_map
ReferencedBy(operation) == {operation.request_body_schema_name}

\* referenced_components without the tree-shaking: every component name counts
every_component(res) == {<<"A">>, <<"B">>, <<"C">>}

\* Api::referenced_components, as the set the caller collects it into
referenced_components(res) ==
    LET ops == AllOperations(res) IN
    {n.val : n \in {o \in UNION {ReferencedBy(ops[i]) : i \in 1..Len(ops)} : IsSome(o)}}

\* a BTreeSet in iteration order
RECURSIVE Sorted(_)
Sorted(S) ==
    IF S = {} THEN <<>>
    ELSE LET least == CHOOSE x \in S : \A y \in S \ {x} : StrLt(x, y) IN
         <<least>> \o Sorted(S \ {least})

\* the filter_map over the component names, from index i on; st carries the
\* table, the entries collected and the names looked up
RECURSIVE TypesLoop(_, _, _)
TypesLoop(components, i, st) ==
    IF i > Len(components) THEN st
    ELSE LET schema_name == components[i]
             at == IndexOfKey(st.schemas, schema_name)
             looked == [st EXCEPT !.schemas = SwapRemoved(@, schema_name),
                                  !.lookups = Append(@, schema_name)] IN
         IF at = 0 THEN TypesLoop(components, i + 1, looked)
         ELSE LET s == st.schemas[at][2] IN
              IF s.tag = "Bool" THEN TypesLoop(components, i + 1, looked)
              ELSE TypesLoop(components, i + 1,
                       [looked EXCEPT !.types = BTreeInsert(@, schema_name, s.obj)])

\* api_types resolving also the schemas that fields may name, here every
\* schema of the table
api_types_following_fields(res, tbl) ==
    TypesLoop(Sorted(referenced_components(res) \cup {tbl[i][1] : i \in 1..Len(tbl)}), 1,
              [schemas |-> tbl, types |-> <<>>, lookups |-> <<>>])

\* Api::types: the table left, Types and the lookups made
api_types(res, tbl) ==
    TypesLoop(Sorted(referenced_components(res)), 1,
              [schemas |-> tbl, types |-> <<>>, lookups |-> <<>>])

----------------------------------------------------------------------------
(* The documents the model is run on.                                      *)

MaxParams == 2

MaxResponses == 3

NameA == <<"A">>

NameB == <<"B">>

NameC == <<"C">>

OpIds ==
    {None,
     Some(<<"v", "1", ".", "a", ".", "x">>),
     Some(<<"v", "1", ".", "a", ".", "y">>),
     Some(<<"v", "1", ".", "b", ".", "x">>),
     Some(<<"v", "2", ".", "a", ".", "x">>),
     Some(<<"v", "1", ".", "a">>),
     Some(<<"v", "1", ".", "a", ".", "x", ".", "y">>)}

StringFormatOf == FormatSchemaOf(SchemaObj(TypedSchema("string")))

IntegerFormatOf == FormatSchemaOf(SchemaObj(FormatSchema("integer", "int32")))

\* a simple-style required string path parameter
PathParamOk == Parameter("Path", "Simple", ParameterData("id", TRUE, StringFormatOf))

\* { "type": "string", "format": "uri" }
UriFormatOf == FormatSchemaOf(SchemaObj(FormatSchema("string", "uri")))

\* { "type": "string", "enum": ["a", "b"] }
EnumFormatOf ==
    FormatSchemaOf(SchemaObj([TypedSchema("string") EXCEPT !.enum_values = Some(<<"a", "b">>)]))

\* a simple-style header parameter whose string schema carries a format
HeaderParamUri == Parameter("Header", "Simple", ParameterData("h", TRUE, UriFormatOf))

\* a simple-style required path parameter whose string schema carries an enum
PathParamEnum == Parameter("Path", "Simple", ParameterData("id", TRUE, EnumFormatOf))

ParamKinds ==
    {ParamReference}
    \cup {Parameter("Path", "Simple", ParameterData("id", req, fmt)) :
            req \in BOOLEAN, fmt \in {StringFormatOf, IntegerFormatOf}}
    \cup {Parameter("Path", "Simple", ParameterData("id", TRUE, FormatContent)),
          Parameter("Path", "Simple",
                    ParameterData("id", TRUE, FormatSchemaOf(SchemaBool(TRUE)))),
          Parameter("Path", "Matrix", ParameterData("id", FALSE, StringFormatOf)),
          Parameter("Header", "Simple", ParameterData("h", FALSE, StringFormatOf)),
          Parameter("Query", "Form", ParameterData("q", TRUE, IntegerFormatOf)),
          HeaderParamUri, PathParamEnum}

SeqsUpTo(S, n) == UNION {[1..k -> S] : k \in 0..n}

ParamLists == SeqsUpTo(ParamKinds, MaxParams)

MediaType(schema) == [schema |-> schema, extensions |-> {}]

RefMedia(name) == MediaType(Some(SchemaObj(RefSchema(SchemasPrefix, name))))

BoolMedia == MediaType(Some(SchemaBool(TRUE)))

\* one JSON entry
JsonContent(media) == <<<<JsonMedia, media>>>>

\* application/json and application/xml
TwoContents == <<<<JsonMedia, RefMedia(NameA)>>, <<"application/xml", RefMedia(NameA)>>>>

RequestBody(required, content) ==
    Some([tag |-> "Item",
          body |-> [required |-> required, extensions |-> {}, content |-> content]])

RequestA == RequestBody(TRUE, JsonContent(RefMedia(NameA)))

RequestTwoContents == RequestBody(TRUE, TwoContents)

RequestBodies ==
    {None, Some([tag |-> "Reference"]), RequestTwoContents,
     RequestBody(FALSE, JsonContent(RefMedia(NameA))),
     RequestBody(FALSE, TwoContents),
     RequestBody(TRUE, <<>>),
     RequestBody(TRUE, <<<<"application/xml", RefMedia(NameA)>>>>)}
    \cup {RequestBody(TRUE, JsonContent(m)) :
            m \in {RefMedia(NameA), RefMedia(NameB), RefMedia(NameC), BoolMedia,
                   MediaType(None),
                   MediaType(Some(SchemaObj(TypedSchema("object")))),
                   MediaType(Some(SchemaObj(RefSchema("#/definitions/", NameA))))}}

Response(content) == [tag |-> "Item", body |-> [extensions |-> {}, content |-> content]]

NoBody == Response(<<>>)

ResponseKinds ==
    {NoBody, Response(JsonContent(RefMedia(NameA))), Response(JsonContent(RefMedia(NameB))),
     Response(JsonContent(BoolMedia)), Response(TwoContents)}

Code(c) == [tag |-> "Code", val |-> c]

StatusCodes == {Code(200), Code(201), Code(404), [tag |-> "Range", val |-> 2]}

Responses(entries) == Some([default |-> None, extensions |-> {}, responses |-> entries])

\* status-code-keyed tables of at most n entries: no status code twice
RECURSIVE EntriesOver(_, _)
EntriesOver(codes, n) ==
    IF n = 0 THEN {<<>>}
    ELSE {<<>>} \cup UNION {{<<<<c, k>>>> \o rest : k \in ResponseKinds,
                                                  rest \in EntriesOver(codes \ {c}, n - 1)} :
                            c \in codes}

ResponseEntries == EntriesOver(StatusCodes, MaxResponses)

OneResponse(name) == Responses(<<<<Code(200), Response(JsonContent(RefMedia(name)))>>>>)

\* tables the entries above do not make: a $ref response, a default response
OtherResponseTables ==
    {None, Responses(<<<<Code(200), [tag |-> "Reference"]>>, <<Code(201), NoBody>>>>),
     Some([default |-> Some(NoBody), extensions |-> {},
           responses |-> <<<<Code(200), NoBody>>, <<Code(201), NoBody>>>>])}

Operation(id, params, req, resp) ==
    [operation_id |-> id, description |-> None, parameters |-> params,
     request_body |-> req, responses |-> resp]

IdAX == Some(<<"v", "1", ".", "a", ".", "x">>)

\* every identifier with every parameter list
OpsByParameters(o) ==
    \E id \in OpIds, ps \in ParamLists,
       req \in {None, RequestTwoContents}, resp \in {None, OneResponse(NameA)} :
        o = Operation(id, ps, req, resp)

\* every identifier with every request body
OpsByRequestBody(o) ==
    \E id \in OpIds, ps \in {<<>>, <<PathParamOk>>, <<ParamReference>>},
       req \in RequestBodies,
       resp \in {None, OneResponse(NameB),
                 Responses(<<<<Code(200), NoBody>>, <<Code(204), NoBody>>>>)} :
        o = Operation(id, ps, req, resp)

\* every response table
OpsByResponses(o) ==
    \E req \in {None, RequestA, RequestTwoContents} :
        \/ \E resp \in OtherResponseTables : o = Operation(IdAX, <<>>, req, resp)
        \/ \E e \in ResponseEntries : o = Operation(IdAX, <<>>, req, Responses(e))

NoItem == [tag |-> "NoItem"]

\* the i-th key of the path table
PathKey(i) == <<"/p", i>>

\* the methods a path item is iterated in (aide's PathItem iterator)
Methods == <<"get", "put", "post">>

----------------------------------------------------------------------------
(* Api::new over a path table holding one path with one operation.         *)

InitOp ==
    /\ pc = "new"
    /\ npaths = 1
    /\ cur = [path |-> PathKey(1), next |-> 1]
    /\ nops = 0
    /\ resources = <<>>
    /\ \/ OpsByParameters(op)
       \/ OpsByRequestBody(op)
       \/ OpsByResponses(op)
    /\ result = Pending
    /\ schemas = <<>>
    /\ table = <<>>
    /\ types = <<>>
    /\ lookups = <<>>
    /\ node = EmptySchemaObject
    /\ out = Pending
    /\ text = Pending

\* the one iteration of both loops and the return
ApiNewSingle ==
    /\ pc = "new"
    /\ result = Pending
    /\ LET r == from_openapi(cur.path, Methods[cur.next], op) IN
       /\ result' = r
       /\ resources' = AfterOperation(resources, r)
       /\ pc' = IF r = Panic THEN "panicked" ELSE "built"
    /\ nops' = nops + 1
    /\ cur' = NoItem
    /\ UNCHANGED <<npaths, op, schemas, table, types, lookups, node, out, text>>

NextOp == ApiNewSingle

SpecOp == InitOp /\ [][NextOp]_vars

----------------------------------------------------------------------------
(* Api::new over any path table, one loop iteration at a time.             *)

MaxPaths == 2

MaxOps == 3

IdAY == Some(<<"v", "1", ".", "a", ".", "y">>)

IdBX == Some(<<"v", "1", ".", "b", ".", "x">>)

IdV2 == Some(<<"v", "2", ".", "a", ".", "x">>)

IdTwoParts == Some(<<"v", "1", ".", "a">>)

PathParamInteger == Parameter("Path", "Simple", ParameterData("id", TRUE, IntegerFormatOf))

PathParamOptional == Parameter("Path", "Simple", ParameterData("id", FALSE, StringFormatOf))

\* the operation nodes the path tables are made of
PipeOps ==
    {Operation(id, <<>>, None, None) : id \in {IdAX, IdBX, IdV2, IdTwoParts}}
    \cup {Operation(IdAY, <<PathParamOk>>, RequestA, OneResponse(NameB)),
          Operation(IdV2, <<PathParamOptional>>, RequestTwoContents, None),
          Operation(IdAX, <<PathParamInteger>>, None, None),
          Operation(IdAX, <<PathParamOptional>>, None, None),
          Operation(IdAX, <<>>, RequestTwoContents, None)}

NoOperation == Operation(None, <<>>, None, None)

Init ==
    /\ pc = "new"
    /\ npaths = 0
    /\ cur = NoItem
    /\ nops = 0
    /\ resources = <<>>
    /\ op = NoOperation
    /\ result = Pending
    /\ schemas = <<>>
    /\ table = <<>>
    /\ types = <<>>
    /\ lookups = <<>>
    /\ node = EmptySchemaObject
    /\ out = Pending
    /\ text = Pending

\* the next path item is a $ref: into_item() is None and `?` returns the error
TakeReferencePath ==
    /\ pc = "new" /\ cur = NoItem /\ npaths < MaxPaths
    /\ npaths' = npaths + 1
    /\ pc' = "failed"
    /\ UNCHANGED <<cur, nops, resources, op, result, schemas, table, types, lookups, node, out, text>>

\* the next path item declares parameters of its own: continue
SkipPathWithParameters ==
    /\ pc = "new" /\ cur = NoItem /\ npaths < MaxPaths
    /\ npaths' = npaths + 1
    /\ UNCHANGED <<pc, cur, nops, resources, op, result, schemas, table, types, lookups, node, out, text>>

\* the next path item is entered
EnterPathItem ==
    /\ pc = "new" /\ cur = NoItem /\ npaths < MaxPaths
    /\ npaths' = npaths + 1
    /\ cur' = [path |-> PathKey(npaths + 1), next |-> 1]
    /\ UNCHANGED <<pc, nops, resources, op, result, schemas, table, types, lookups, node, out, text>>

\* one iteration of `for (method, op) in path_item`: the item's next operation
\* is under method m
ProcessOperation ==
    /\ pc = "new" /\ cur # NoItem /\ nops < MaxOps
    /\ \E m \in cur.next..Len(Methods), o \in PipeOps :
         LET r == from_openapi(cur.path, Methods[m], o) IN
         /\ op' = o
         /\ result' = r
         /\ resources' = AfterOperation(resources, r)
         /\ pc' = IF r = Panic THEN "panicked" ELSE "new"
         /\ cur' = [cur EXCEPT !.next = m + 1]
    /\ nops' = nops + 1
    /\ UNCHANGED <<npaths, schemas, table, types, lookups, node, out, text>>

\* the path item has no further operation
LeavePathItem ==
    /\ pc = "new" /\ cur # NoItem
    /\ cur' = NoItem
    /\ UNCHANGED <<pc, npaths, nops, resources, op, result, schemas, table, types, lookups, node, out, text>>

\* the path table is exhausted: Ok(Self { resources })
ReturnApi ==
    /\ pc = "new" /\ cur = NoItem
    /\ pc' = "built"
    /\ UNCHANGED <<npaths, cur, nops, resources, op, result, schemas, table, types, lookups, node, out, text>>

Next ==
    \/ TakeReferencePath
    \/ SkipPathWithParameters
    \/ EnterPathItem
    \/ ProcessOperation
    \/ LeavePathItem
    \/ ReturnApi

Spec == Init /\ [][Next]_vars

----------------------------------------------------------------------------
(* Api::types on the Api of a small path table and a component table.      *)

MaxBodies == 2

RequestOf(name) == RequestBody(TRUE, JsonContent(RefMedia(name)))

\* operations that differ in the schemas their bodies name
TypeOps ==
    {Operation(IdAX, <<>>, req, resp) :
        req \in {None, RequestOf(NameA), RequestOf(NameB)},
        resp \in {None, OneResponse(NameA), OneResponse(NameC)}}
    \cup {Operation(IdBX, <<>>, RequestOf(NameA), None),
          Operation(IdBX, <<>>, None, OneResponse(NameB))}

\* Api::new over the table whose i-th path holds the one operation ops[i]
RECURSIVE ApiOf(_, _)
ApiOf(ops, n) ==
    IF n = 0 THEN <<>>
    ELSE AfterOperation(ApiOf(ops, n - 1), from_openapi(PathKey(n), Methods[1], ops[n]))

RefProperty(name) == SchemaObj(RefSchema(SchemasPrefix, name))

StringProperty == SchemaObj(TypedSchema("string"))

\* the schemas a component name may stand for
ComponentSchemas(name) ==
    IF name = NameA THEN
        {SchemaObj(StructSchema(<<<<"r", RefProperty(NameB)>>, <<"s", StringProperty>>>>, {"s"})),
         SchemaObj(StructSchema(<<<<"n", StringProperty>>>>, {}))}
    ELSE IF name = NameB THEN
        {SchemaObj(StructSchema(
            <<<<"l", SchemaObj(ArraySchema(RefProperty(NameC), None))>>>>, {"l"})),
         SchemaBool(TRUE)}
    ELSE {SchemaObj(StructSchema(<<<<"n", StringProperty>>>>, {"n"}))}

ComponentNames == {NameA, NameB, NameC}

\* component tables: each name at most once, in any document order
ComponentTables ==
    {t \in SeqsUpTo(UNION {{<<n, c>> : c \in ComponentSchemas(n)} : n \in ComponentNames},
                    Cardinality(ComponentNames)) :
        \A i, j \in 1..Len(t) : i # j => t[i][1] # t[j][1]}

InitTypes ==
    /\ pc = "built"
    /\ \E ops \in SeqsUpTo(TypeOps, MaxBodies) :
         /\ npaths = Len(ops)
         /\ nops = Len(ops)
         /\ resources = ApiOf(ops, Len(ops))
    /\ cur = NoItem
    /\ op = NoOperation
    /\ result = Pending
    /\ table \in ComponentTables
    /\ schemas = table
    /\ types = <<>>
    /\ lookups = <<>>
    /\ node = EmptySchemaObject
    /\ out = Pending
    /\ text = Pending

\* api.types(&mut schemas)
ApiTypes ==
    /\ pc = "built"
    /\ LET r == api_types(resources, schemas) IN
       /\ schemas' = r.schemas
       /\ types' = r.types
       /\ lookups' = r.lookups
    /\ pc' = "typed"
    /\ UNCHANGED <<npaths, cur, nops, resources, op, result, table, node, out, text>>

NextTypes == ApiTypes

SpecTypes == InitTypes /\ [][NextTypes]_vars

----------------------------------------------------------------------------
(* FieldType::from_schema_object on a schema node, then a template's call  *)
(* of one of the FieldType's methods.                                      *)

MaxDepth == 2

\* an ArrayValidation
ArrayNode(items, additional_items, unique_items) ==
    [TypedSchema("array") EXCEPT
        !.array = Some([items |-> items, additional_items |-> additional_items,
                        unique_items |-> unique_items])]

\* an object node with the given ObjectValidation
ObjectNode(validation) == [TypedSchema("object") EXCEPT !.object = Some(validation)]

\* nodes that hold no other node
LeafNodes ==
    {EmptySchemaObject,
     RefSchema(SchemasPrefix, NameA),
     RefSchema("#/definitions/", NameA),
     [RefSchema(SchemasPrefix, NameA) EXCEPT !.instance_type = Some(Single("string"))],
     [EmptySchemaObject EXCEPT !.instance_type = Some(Multi(<<"string", "null">>))],
     FormatSchema("boolean", "int32")}
    \cup {TypedSchema(t) :
            t \in {"boolean", "integer", "string", "number", "null", "array", "object"}}
    \cup {FormatSchema("integer", f) :
            f \in {"int16", "uint16", "int32", "int", "int64", "uint", "uint64", "int8"}}
    \cup {FormatSchema("string", f) : f \in {"date-time", "uri", "email"}}
    \cup {MapSchema(SchemaBool(b)) : b \in BOOLEAN}
    \cup {ObjectNode(PlainObject(<<>>, {})),
          ObjectNode([PlainObject(<<<<"n", SchemaObj(TypedSchema("string"))>>>>, {})
                        EXCEPT !.additional_properties = Some(SchemaBool(TRUE))]),
          ObjectNode([PlainObject(<<>>, {"n"})
                        EXCEPT !.additional_properties = Some(SchemaBool(TRUE))]),
          ObjectNode([PlainObject(<<>>, {})
                        EXCEPT !.additional_properties = Some(SchemaBool(TRUE)),
                               !.min_properties = Some(1)])}
    \cup {ArrayNode(None, None, None),
          ArrayNode(Some(Single(SchemaBool(TRUE))), None, None),
          ArrayNode(Some(Multi(<<SchemaObj(TypedSchema("string")),
                                 SchemaObj(TypedSchema("boolean"))>>)), None, None)}

\* schema nodes nested at most d deep
RECURSIVE FieldNodes(_)
FieldNodes(d) ==
    IF d = 0 THEN LeafNodes
    ELSE LET inner == FieldNodes(d - 1) IN
         inner
         \cup {ArraySchema(SchemaObj(n), u) :
                 n \in inner, u \in {None, Some(TRUE), Some(FALSE)}}
         \cup {ArrayNode(Some(Single(SchemaObj(n))), Some(SchemaBool(TRUE)), None) :
                 n \in inner}
         \cup {MapSchema(SchemaObj(n)) : n \in inner}

\* the methods and argument lists a template may call
TemplateMethods ==
    {"to_csharp", "to_go", "to_js", "to_kotlin", "to_rust", "is_datetime", "to_python"}

TemplateArgs == {<<>>, <<"x">>}

InitField ==
    /\ pc = "field"
    /\ npaths = 0
    /\ cur = NoItem
    /\ nops = 0
    /\ resources = <<>>
    /\ op = NoOperation
    /\ result = Pending
    /\ schemas = <<>>
    /\ table = <<>>
    /\ types = <<>>
    /\ lookups = <<>>
    /\ node \in FieldNodes(MaxDepth)
    /\ out = Pending
    /\ text = Pending

\* FieldType::from_schema_object(node)
ResolveField ==
    /\ pc = "field"
    /\ out' = from_schema_object(node)
    /\ pc' = "resolved"
    /\ UNCHANGED <<npaths, cur, nops, resources, op, result, schemas, table, types, lookups,
                   node, text>>

\* a template calls a method of the resolved FieldType
CallMethod ==
    /\ pc = "resolved"
    /\ IsOk(out)
    /\ \E method \in TemplateMethods, args \in TemplateArgs :
         text' = [method |-> method, args |-> args,
                  value |-> call_method(method, args, out.val)]
    /\ pc' = "projected"
    /\ UNCHANGED <<npaths, cur, nops, resources, op, result, schemas, table, types, lookups,
                   node, out>>

NextField == ResolveField \/ CallMethod

SpecField == InitField /\ [][NextField]_vars

----------------------------------------------------------------------------
(* Type::from_schema on a component's schema object.                       *)

MaxProps == 3

\* { "type": "string", "const": "a" }
ConstProperty == SchemaObj([TypedSchema("string") EXCEPT !.const_value = Some("a")])

\* { "type": "string", "enum": ["a", "b"] }
EnumProperty == SchemaObj([TypedSchema("string") EXCEPT !.enum_values = Some(<<"a", "b">>)])

\* { "type": "string", "description": "d", "default": "a", "deprecated": true }
DescribedProperty ==
    SchemaObj([TypedSchema("string") EXCEPT
        !.metadata = Some([description |-> Some("d"), deprecated |-> TRUE,
                           default |-> Some("a")])])

\* the schemas a property may have
PropertySchemas ==
    {StringProperty, DescribedProperty, RefProperty(NameB),
     SchemaObj(ArraySchema(SchemaObj(FormatSchema("integer", "int32")), Some(TRUE))),
     ConstProperty, EnumProperty, SchemaBool(TRUE),
     SchemaObj(TypedSchema("integer")),
     SchemaObj(ArraySchema(SchemaObj(FormatSchema("string", "email")), None))}

\* the property names, in the order the properties map iterates them
PropertyNames == <<"a", "b", "c", "d">>

\* property tables of exactly n properties
PropertyTables(n) == {[i \in 1..n |-> <<PropertyNames[i], f[i]>>] : f \in [1..n -> PropertySchemas]}

\* schema objects Type::from_schema refuses before it reads a property
RefusedShapes ==
    {EmptySchemaObject, TypedSchema("string"), TypedSchema("object"),
     [EmptySchemaObject EXCEPT !.instance_type = Some(Multi(<<"object", "null">>))],
     MapSchema(SchemaBool(TRUE)),
     ObjectNode([PlainObject(<<<<"a", StringProperty>>>>, {}) EXCEPT !.max_properties = Some(1)]),
     ObjectNode([PlainObject(<<<<"a", StringProperty>>>>, {}) EXCEPT !.min_properties = Some(1)]),
     ObjectNode([PlainObject(<<<<"a", StringProperty>>>>, {}) EXCEPT
                    !.pattern_properties = {"^x"}]),
     ObjectNode([PlainObject(<<<<"a", StringProperty>>>>, {}) EXCEPT
                    !.property_names = Some(SchemaBool(TRUE))])}

InitStruct ==
    /\ pc = "struct"
    /\ npaths = 0
    /\ cur = NoItem
    /\ nops = 0
    /\ resources = <<>>
    /\ op = NoOperation
    /\ result = Pending
    /\ schemas = <<>>
    /\ table = <<>>
    /\ types = <<>>
    /\ lookups = <<>>
    /\ \/ node \in RefusedShapes
       \/ \E n \in 0..MaxProps, required \in {{}, {"a"}, {"b", "z"}} :
            \E props \in PropertyTables(n) : node = StructSchema(props, required)
    /\ out = Pending
    /\ text = Pending

\* Type::from_schema(name, node)
TypeFromSchema ==
    /\ pc = "struct"
    /\ out' = type_from_schema(NameA, node)
    /\ pc' = "made"
    /\ UNCHANGED <<npaths, cur, nops, resources, op, result, schemas, table, types, lookups,
                   node, text>>

NextStruct == TypeFromSchema

SpecStruct == InitStruct /\ [][NextStruct]_vars

----------------------------------------------------------------------------
(* What the claims speak of.                                               *)

\* the operation was handed to from_openapi
Extracted == result # Pending

HasId(o) == IsSome(o.operation_id)

\* the identifier is not of the form v1.<resource>.<op>
MalformedId(id) == Len(Split(id)) # 3 \/ Split(id)[1] # V1

\* the operation has an identifier of the form v1.<resource>.<op>
ValidV1(o) == HasId(o) /\ ~MalformedId(o.operation_id.val)

\* its parameters are all accepted
ParametersPass(o) == IsOk(ParamLoop(o.parameters, 1, NoParams))

\* the operations stored in the Api, as a set
StoredOperations == {AllOperations(resources)[i] : i \in 1..Len(AllOperations(resources))}

----------------------------------------------------------------------------
\* C1: an operation whose identifier does not split on '.' into exactly three
\* segments, or whose first segment is not v1, makes from_openapi return None
\* without a fatal error whatever else it declares; no operation with such an
\* identifier is in any resource of the Api, and Api::new is not aborted by it.
C1_MalformedIdSkipped ==
    /\ (Extracted /\ HasId(op) /\ MalformedId(op.operation_id.val))
          => (result = None /\ pc \in {"new", "built", "failed"})
    /\ \A o \in StoredOperations : ~MalformedId(o.id)

\* an Api was returned with operations in it after an operation with a v2
\* identifier, an optional path parameter and two content types was skipped
C1_Witness ==
    /\ pc = "built"
    /\ resources # <<>>
    /\ op = Operation(IdV2, <<PathParamOptional>>, RequestTwoContents, None)
    /\ result = None

\* a path parameter that is not required, or whose schema is not a string schema
BadPathParameter(p) ==
    /\ p.tag = "Item"
    /\ p.loc = "Path"
    /\ \/ ~p.data.required
       \/ p.data.format.tag # "Schema"
       \/ p.data.format.schema.tag # "Object"
       \/ p.data.format.schema.obj.instance_type # Some(Single("string"))

DeclaresBadPathParameter(o) ==
    \E i \in 1..Len(o.parameters) : BadPathParameter(o.parameters[i])

\* C2: an operation with a valid v1 identifier that declares a path parameter
\* which is not required, or whose schema is not a string schema, is dropped
\* (from_openapi returns None) and the compilation goes on.
C2_BadPathParameterSkipped ==
    (Extracted /\ ValidV1(op) /\ DeclaresBadPathParameter(op))
        => (result = None /\ pc # "panicked")

\* the success responses of a response table, in document order
SuccessResponses(o) == SelectSeq(o.responses.val.responses, IsSuccess)

\* the body schema name each success response declares (None: no body schema)
SuccessNames(o) ==
    {response_body_schema_name(SuccessResponses(o)[i][2]) :
        i \in 1..Len(SuccessResponses(o))}

\* the operation reaches its responses: identifier and parameters are accepted
\* and the request body, the default response and the extensions abort nothing
ReachesResponses(o) ==
    /\ ValidV1(o)
    /\ ParametersPass(o)
    /\ request_body_schema_name(o.request_body) # Panic
    /\ IsSome(o.responses)
    /\ o.responses.val.default = None
    /\ o.responses.val.extensions = {}

\* C3: for an operation that reaches its responses and has two or more success
\* (2xx) responses: if their body schema names differ (a name against another
\* name, or a name against none), the compilation fails fatally; if they all
\* agree, extraction succeeds and response_body_schema_name is the agreed value,
\* in whatever order the success responses stand and whatever responses stand
\* between them.
C3_SuccessResponsesAgree ==
    (Extracted /\ ReachesResponses(op) /\ Len(SuccessResponses(op)) >= 2)
        => IF Cardinality(SuccessNames(op)) > 1 \/ Panic \in SuccessNames(op)
           THEN result = Panic /\ pc = "panicked" /\ resources = <<>>
           ELSE /\ IsSome(result)
                /\ pc = "built"
                /\ \A n \in SuccessNames(op) :
                      result.val[2].response_body_schema_name = n

\* 200 and 201 both name schema A, with a 404 naming B between them, and the
\* operation was extracted with A
C3_Witness ==
    /\ pc = "built"
    /\ IsSome(op.responses)
    /\ op.responses.val.responses =
          <<<<Code(201), Response(JsonContent(RefMedia(NameA)))>>,
            <<Code(404), Response(JsonContent(RefMedia(NameB)))>>,
            <<Code(200), Response(JsonContent(RefMedia(NameA)))>>>>
    /\ IsSome(result)
    /\ result.val[2].response_body_schema_name = Some(NameA)

\* the operation has an inline request body
InlineRequestBody(o) == IsSome(o.request_body) /\ o.request_body.val.tag = "Item"

\* C4: an operation that passes identifier and parameter validation and has an
\* inline request body whose content table does not have exactly one entry
\* fails the whole compilation: from_openapi does not return, no Api is
\* produced, the operation is neither skipped nor stored without a body name.
C4_ContentCountFatal ==
    (/\ Extracted /\ ValidV1(op) /\ ParametersPass(op)
     /\ InlineRequestBody(op)
     /\ Len(op.request_body.val.body.content) # 1)
        => (result = Panic /\ pc = "panicked" /\ resources = <<>>)

\* a required request body with application/json and application/xml aborted
\* the compilation
C4_Witness ==
    /\ pc = "panicked"
    /\ ValidV1(op) /\ ParametersPass(op)
    /\ op.request_body = RequestTwoContents

\* where an operation was met: its path's place in the table, its method's
\* place in the path item
PathPlace(operation) == operation.path[2]

MethodPlace(operation) == CHOOSE m \in 1..Len(Methods) : Methods[m] = operation.method

MetBefore(o1, o2) ==
    \/ PathPlace(o1) < PathPlace(o2)
    \/ PathPlace(o1) = PathPlace(o2) /\ MethodPlace(o1) < MethodPlace(o2)

\* C10: the resources of the Api are ordered by resource name, and within each
\* resource the operations stand in document encounter order (paths, then
\* methods), whatever was met between them.
C10_Ordered ==
    /\ \A i, j \in 1..Len(resources) :
          i < j => StrLt(resources[i][1], resources[j][1])
    /\ \A r \in 1..Len(resources) :
          \A i, j \in 1..Len(resources[r][2].operations) :
             i < j => MetBefore(resources[r][2].operations[i],
                                resources[r][2].operations[j])

\* resource b was created before resource a; a holds two operations, and an
\* operation of b was met between them
C10_Witness ==
    /\ pc = "built"
    /\ Len(resources) = 2
    /\ Len(resources[1][2].operations) = 2
    /\ \E o \in {resources[2][2].operations[i] : i \in 1..Len(resources[2][2].operations)} :
          /\ MetBefore(resources[1][2].operations[1], o)
          /\ MetBefore(o, resources[1][2].operations[2])

\* the parameter's schema is inline and says "type": "string" and nothing else
PlainStringSchema(p) ==
    /\ p.data.format.tag = "Schema"
    /\ p.data.format.schema.tag = "Object"
    /\ p.data.format.schema.obj = TypedSchema("string")

\* the i-th parameter is the one handed to the parameter schema validation:
\* the parameters before it are accepted and it is a simple-style header
\* parameter or a simple-style required path parameter
Validated(o, i) ==
    /\ IsOk(ParamLoop(SubSeq(o.parameters, 1, i - 1), 1, NoParams))
    /\ o.parameters[i].tag = "Item"
    /\ o.parameters[i].style = "Simple"
    /\ \/ o.parameters[i].loc = "Header"
       \/ o.parameters[i].loc = "Path" /\ o.parameters[i].data.required

\* C11: the schema validation of path and header parameters accepts a
\* parameter only if its schema is inline and declares instance type string
\* with no other constraint; for every other shape, a string schema with a
\* format or an enum included, the enclosing operation is skipped.
C11_OnlyPlainStringAccepted ==
    (Extracted /\ ValidV1(op)) =>
        \A i \in 1..Len(op.parameters) :
            (Validated(op, i) /\ ~PlainStringSchema(op.parameters[i]))
                => (result = None /\ pc = "built" /\ resources = <<>>)

\* the resource under key k is well formed: it has an operation, its name is
\* its key, and each of its operations has the identifier v1.k.<name>
WellFormedResource(k, r) ==
    /\ r.operations # <<>>
    /\ r.name = k
    /\ \A i \in 1..Len(r.operations) :
          Split(r.operations[i].id) = <<V1, k, r.operations[i].name>>

ResourcesWellFormed ==
    \A i \in 1..Len(resources) : WellFormedResource(resources[i][1], resources[i][2])

\* this step handed an operation to from_openapi and got None
SkipsOperation == nops' = nops + 1 /\ result' = None

\* C16: in every state of the Api::new loop and in the Api returned, every
\* resource of the map has at least one operation, its key is its name, and
\* every operation under resource R has an identifier v1.R.<name> whose third
\* segment is the operation's name; a step that skips an operation leaves the
\* resource map as it was.
C16_ResourceInvariant ==
    /\ []ResourcesWellFormed
    /\ [][SkipsOperation => resources' = resources]_vars

\* two resources are in the map and the operation met last was skipped
C16_Witness ==
    /\ pc = "new"
    /\ Len(resources) = 2
    /\ result = None
    /\ op = Operation(IdAX, <<PathParamInteger>>, None, None)

----------------------------------------------------------------------------
(* The field-type resolver's and the projectors' claims.                   *)

\* the reference mapping: format to FieldType, per instance type
IntegerKinds ==
    {<<Some("int16"), "Int16">>, <<Some("uint16"), "UInt16">>, <<Some("int32"), "Int32">>,
     <<Some("int"), "Int64">>, <<Some("int64"), "Int64">>,
     <<Some("uint"), "UInt64">>, <<Some("uint64"), "UInt64">>}

StringKinds == {<<None, "String">>, <<Some("date-time"), "DateTime">>, <<Some("uri"), "Uri">>}

KindOf(kinds, format) ==
    IF \E e \in kinds : e[1] = format
    THEN Ok(FT((CHOOSE e \in kinds : e[1] = format)[2]))
    ELSE Err

\* a "$ref" to a component schema
IsComponentRef(n) == IsSome(n.reference) /\ Head(n.reference.val) = SchemasPrefix

\* an array node with a single item schema and no "additional items" clause
SingleItemArray(n) ==
    /\ IsSome(n.array)
    /\ n.array.val.additional_items = None
    /\ IsSome(n.array.val.items)
    /\ n.array.val.items.val.tag = "Single"

\* an object node with empty properties, an additionalProperties clause and
\* no other object constraint
OpenObject(n) ==
    /\ IsSome(n.object)
    /\ IsSome(n.object.val.additional_properties)
    /\ n.object.val = [PlainObject(<<>>, {}) EXCEPT
                          !.additional_properties = n.object.val.additional_properties]

RECURSIVE ReferenceMapping(_)
ReferenceMapping(n) ==
    CASE n.instance_type = None ->
            IF IsComponentRef(n) THEN Ok(FTSchemaRef(Tail(n.reference.val))) ELSE Err
      [] n.instance_type # None /\ n.instance_type.val.tag = "Vec" -> Err
      [] OTHER ->
            LET ty == n.instance_type.val.val IN
            CASE ty = "boolean" -> Ok(FT("Bool"))
              [] ty = "integer" -> KindOf(IntegerKinds, n.format)
              [] ty = "string" -> KindOf(StringKinds, n.format)
              [] ty = "array" /\ SingleItemArray(n) ->
                    LET item == n.array.val.items.val.val
                        inner == IF item.tag = "Bool" THEN Err ELSE ReferenceMapping(item.obj) IN
                    CASE ~IsOk(inner) -> Err
                      [] IsOk(inner) /\ n.array.val.unique_items = Some(TRUE) ->
                            Ok(FTSet(inner.val))
                      [] OTHER -> Ok(FTList(inner.val))
              [] ty = "object" /\ OpenObject(n) ->
                    LET ap == n.object.val.additional_properties.val IN
                    CASE ap = SchemaBool(TRUE) -> Ok(FT("JsonObject"))
                      [] ap = SchemaBool(FALSE) -> Err
                      [] OTHER ->
                            LET value == ReferenceMapping(ap.obj) IN
                            IF IsOk(value) THEN Ok(FTMap(value.val)) ELSE Err
              [] OTHER -> Err

\* C12: on every schema node, FieldType::from_schema_object returns what the
\* reference mapping gives: Bool for boolean; the integer and string kinds by
\* format, failing on any other format; Set or List of the item's type for an
\* array by uniqueItems; JsonObject, failure or Map for an object with empty
\* properties by additionalProperties; SchemaRef for a type-less component
\* reference; failure for multi-valued types and whenever a nested node fails.
C12_ResolverMatchesReference ==
    pc \in {"resolved", "projected"} => out = ReferenceMapping(node)

\* a unique-items array of maps of "int" integers resolved to Set(Map(Int64))
C12_Witness ==
    /\ pc = "resolved"
    /\ node = ArraySchema(SchemaObj(MapSchema(SchemaObj(FormatSchema("integer", "int")))),
                          Some(TRUE))
    /\ out = Ok(FTSet(FTMap(FT("Int64"))))

\* the five target languages' projectors, by template method name
ProjectorMethods == {"to_csharp", "to_go", "to_js", "to_kotlin", "to_rust"}

\* a projector was called on the resolved FieldType
Projected == pc = "projected" /\ text.method \in ProjectorMethods /\ text.args = <<>>

\* what the projector called makes of another FieldType
Project(t) == call_method(text.method, <<>>, t)

\* Set(inner) for List(inner) and List(inner) for Set(inner)
Twin(t) == IF t.kind = "Set" THEN FTList(t.inner) ELSE FTSet(t.inner)

\* C13: in every target language and for every inner FieldType, the projector
\* gives Set(inner) and List(inner) the same outcome: the same text when the
\* inner type has a projection, a fatal error for both when it has none.
C13_SetProjectsAsList ==
    (Projected /\ out.val.kind \in {"Set", "List"}) =>
        IF Project(out.val.inner) = Panic
        THEN text.value = Panic /\ Project(Twin(out.val)) = Panic
        ELSE IsSome(text.value) /\ text.value = Project(Twin(out.val))

\* a set of lists of references to A was projected for Kotlin as a list of lists
C13_Witness ==
    /\ Projected
    /\ out = Ok(FTSet(FTList(FTSchemaRef(NameA))))
    /\ text.method = "to_kotlin"
    /\ text.value = Some("List<List<A>>")

\* C14: in every target language the projector does not tell Uri from String:
\* Uri gets the language's plain string type name, the text String gets, and
\* no fatal unimplemented branch is reached.
C14_UriProjectsAsString ==
    (Projected /\ out.val.kind = "Uri") =>
        (IsSome(text.value) /\ text.value = Project(FT("String")))

----------------------------------------------------------------------------
(* The type builder's claim.                                               *)

\* the properties the schema object declares
DeclaredProperties == node.object.val.properties

\* a property Field::from_schema does not take: a boolean schema, a const or
\* an enum constraint, or a field type the resolver rejects
Offending(s) ==
    \/ s.tag = "Bool"
    \/ /\ s.tag = "Object"
       /\ \/ s.obj.const_value # None
          \/ s.obj.enum_values # None
          \/ ~IsOk(from_schema_object(s.obj))

\* C15: Type::from_schema is all-or-nothing: when any declared property, at
\* whatever place among the others, is a boolean schema, carries a const or an
\* enum, or has a field type the resolver rejects, the call fails and returns
\* no Type; when it succeeds, the Struct has one field per declared property.
C15_AllOrNothing ==
    (pc = "made" /\ IsSome(node.object)) =>
        /\ (\E i \in 1..Len(DeclaredProperties) : Offending(DeclaredProperties[i][2]))
              => out = Err
        /\ IsOk(out) =>
              /\ out.val.data.tag = "Struct"
              /\ [i \in 1..Len(out.val.data.fields) |-> out.val.data.fields[i].name]
                    = [i \in 1..Len(DeclaredProperties) |-> DeclaredProperties[i][1]]

\* a schema with three properties, the last one with an enum after two that
\* are taken, was refused as a whole
C15_Witness ==
    /\ pc = "made"
    /\ node = StructSchema(<<<<"a", StringProperty>>, <<"b", RefProperty(NameB)>>,
                             <<"c", EnumProperty>>>>, {"a"})
    /\ out = Err

----------------------------------------------------------------------------
(* The component resolver's claims: the Api, the table given, Types.       *)

RequestNames ==
    {o.request_body_schema_name.val :
        o \in {x \in StoredOperations : IsSome(x.request_body_schema_name)}}

ResponseNames ==
    {o.response_body_schema_name.val :
        o \in {x \in StoredOperations : IsSome(x.response_body_schema_name)}}

\* the schema names some operation names as its request or response body
BodyNames == RequestNames \cup ResponseNames

TableNames == {table[i][1] : i \in 1..Len(table)}

TableSchema(n) == table[IndexOfKey(table, n)][2]

\* the names the table gives an object (not boolean) schema
ObjectNames == {n \in TableNames : TableSchema(n).tag = "Object"}

TypeKeys == {types[i][1] : i \in 1..Len(types)}

TypeEntry(n) == types[KeyIndex(types, n)][2]

LookedUp == {lookups[i] : i \in 1..Len(lookups)}

\* an object schema with nothing but properties and required set
IsPlainStruct(s) ==
    /\ s.tag = "Object"
    /\ s.obj = StructSchema(s.obj.object.val.properties, s.obj.object.val.required)

\* the schema names a field type holds, directly or inside List, Set or Map
RECURSIVE RefsIn(_)
RefsIn(t) ==
    IF t.kind = "SchemaRef" THEN {t.name}
    ELSE IF t.kind \in {"List", "Set", "Map"} THEN RefsIn(t.inner)
    ELSE {}

\* the schema names the fields of the type under key k hold
FieldRefs(k) ==
    LET t == type_from_schema(k, TypeEntry(k)) IN
    IF IsOk(t)
    THEN UNION {RefsIn(t.val.data.fields[i].type) : i \in 1..Len(t.val.data.fields)}
    ELSE {}

\* C5: every component schema that is the request-body or response-body schema
\* name of some operation, and is an object with only properties and required
\* set, has exactly one entry in Types, in Struct form, whose fields are the
\* declared properties, each required exactly when it is in the required set.
C5_ReferencedStructBuilt ==
    pc = "typed" =>
        \A n \in BodyNames \cap TableNames :
            IsPlainStruct(TableSchema(n)) =>
                /\ Cardinality({i \in 1..Len(types) : types[i][1] = n}) = 1
                /\ LET t == type_from_schema(n, TypeEntry(n))
                       o == TableSchema(n).obj.object.val IN
                   /\ IsOk(t)
                   /\ t.val.data.tag = "Struct"
                   /\ [i \in 1..Len(t.val.data.fields) |-> t.val.data.fields[i].name]
                        = [i \in 1..Len(o.properties) |-> o.properties[i][1]]
                   /\ \A i \in 1..Len(t.val.data.fields) :
                        t.val.data.fields[i].required
                            <=> (t.val.data.fields[i].name \in o.required)

\* C6: the names Api::types looks up in the table are the request-body and
\* response-body schema names of all operations; a schema named only as a
\* response body is looked up and, when an object schema, has an entry in Types.
C6_LooksUpBothBodies ==
    pc = "typed" =>
        /\ LookedUp = BodyNames
        /\ \A n \in (ResponseNames \ RequestNames) \cap ObjectNames : n \in TypeKeys

\* C7 as claimed: the keys of Types are closed under schema references: a
\* schema named by a field of a type in Types, and an object schema in the
\* table, is a key of Types.
C7_ClosedUnderReferences ==
    pc = "typed" =>
        \A k \in TypeKeys : \A n \in FieldRefs(k) \cap ObjectNames : n \in TypeKeys

\* C7 as amended: the keys of Types are not closed under schema references: a
\* schema named by a field of a type in Types is a key of Types only if it is
\* itself the request-body or response-body schema name of some operation.
C7_OnlyBodySchemas ==
    pc = "typed" =>
        \A k \in TypeKeys : \A n \in FieldRefs(k) \cap ObjectNames :
            n \in TypeKeys => n \in BodyNames

\* B is in Types and holds a list of C, an object schema of the table that no
\* operation names; C is not in Types
C7_Witness ==
    /\ pc = "typed"
    /\ NameB \in TypeKeys
    /\ NameC \in FieldRefs(NameB) \cap ObjectNames
    /\ NameC \notin BodyNames
    /\ NameC \notin TypeKeys

\* C8: a component schema of the table that no operation names as its request
\* or response body is not a key of Types.
C8_UnreferencedAbsent ==
    pc = "typed" => \A n \in TableNames \ BodyNames : n \notin TypeKeys

\* types were built from a table that also holds a schema no operation names
C8_Witness ==
    /\ pc = "typed"
    /\ types # <<>>
    /\ TableNames \ BodyNames # {}

\* C9: Api::types looks up and removes each referenced name at most once; the
\* table afterwards holds exactly the entries whose names no operation body
\* references, unchanged; a referenced name that is missing or maps to a
\* boolean schema yields no Types entry, and the call completes.
C9_TableConsumed ==
    pc = "typed" =>
        /\ \A i, j \in 1..Len(lookups) : i # j => lookups[i] # lookups[j]
        /\ {schemas[i] : i \in 1..Len(schemas)}
              = {table[i] : i \in {j \in 1..Len(table) : table[j][1] \notin BodyNames}}
        /\ \A i, j \in 1..Len(schemas) : i # j => schemas[i][1] # schemas[j][1]
        /\ \A n \in BodyNames :
              (n \notin TableNames \/ TableSchema(n).tag = "Bool") => n \notin TypeKeys

====
